---------------------------- MODULE Spec2Model ----------------------------
(***************************************************************************)
(* Model of pkg/lang/ir/system.go of envd: the stages that turn a Graph    *)
(* (the environment description) into an llb.State (the build plan).       *)
(*                                                                         *)
(* An llb.State is modelled as the sequence of steps that lead to it; the  *)
(* zero llb.State{} and llb.Scratch() are both the empty sequence.  A      *)
(* formatted string (fmt.Sprintf) is kept as its format (sh) and its       *)
(* arguments (num for %d, args for %s).                                    *)
(***************************************************************************)
EXTENDS Integers, Sequences, FiniteSets, TLC

VARIABLES
    g,        \* the Graph: the receiver of every stage
    caller,   \* the uid and gid the caller supplied, as the Graph got them
    keyFile,  \* the content of the file at DefaultGraph.PublicKeyPath
    root,     \* the llb.State the last stage returned
    err,      \* the error the last stage returned
    pc,       \* "base", "stages", "failed" (an error was returned), "panic"
    last,     \* the stage that ran last
    arg,      \* the llb.State handed to the stage that ran last
    calls     \* the number of later stages invoked since compileBase

vars == <<g, caller, keyFile, root, err, pc, last, arg, calls>>

-----------------------------------------------------------------------------
(* Bounds of the model. *)

MaxExec == 3

MaxPkgs == 3

MaxKeyLen == 3

MaxCalls == 2

-----------------------------------------------------------------------------
(* Values. *)

\* A nil *string.
Nil == "<nil>"

\* A nil error.
NoErr == "<nil error>"

\* os.ReadFile failed.
Unreadable == <<"<unreadable>">>

SeqsUpTo(S, n) == UNION {[1..k -> S] : k \in 0..n}

Last(s) == s[Len(s)]

\* The zero llb.State{}; llb.Scratch() has no steps either.
Scratch == <<>>

Step(op, sh, num, args) ==
    [op |-> op, sh |-> sh, num |-> num, args |-> args,
     name |-> "", mounts |-> <<>>, own |-> <<>>, sub |-> <<>>]

\* llb.WithCustomName
WithCustomName(step, name) == [step EXCEPT !.name = name]

\* llb.WithUIDGID
WithUIDGID(step, uid, gid) == [step EXCEPT !.own = <<uid, gid>>]

\* llb.Image(ref): a state that holds only the base image.
Image(sh, args) == <<Step("Image", sh, -1, args)>>

\* state.Run(llb.Shlex(fmt.Sprintf(sh, ...)), llb.WithCustomName(name))
Run(state, sh, num, args, name) ==
    Append(state, WithCustomName(Step("Run", sh, num, args), name))

-----------------------------------------------------------------------------
(* compileBase *)

CudaImageFormat == "docker.io/%s/python:3.9-%s-cuda%s-cudnn%s-envd-%s"

\* compileCUDAPackages dereferences g.CUDA and g.CUDNN: a nil one panics.
derefPanics(gr) == gr.CUDA = Nil \/ gr.CUDNN = Nil

compileCUDAPackages(gr) ==
    Image(CudaImageFormat,
          <<"FlagDockerOrganization", gr.OS, gr.CUDA, gr.CUDNN, "GitTag">>)

usesCustomImage_AfterAccelerator(gr) ==
    gr.Image # Nil /\ gr.CUDA = Nil /\ gr.CUDNN = Nil

usesCustomImage(gr) == gr.Image # Nil

noAccelerator(gr) == gr.CUDA = Nil /\ gr.CUDNN = Nil

\* The switch on g.Language.Name: it has no default case, so that any other
\* name leaves base the zero llb.State.
languageBase(gr) ==
    CASE gr.Language.Name = "r" ->
           Image("docker.io/%s/r-base:4.2-envd-%s",
                 <<"FlagDockerOrganization", "GitTag">>)
      [] gr.Language.Name = "python" ->
           Image("docker.io/%s/python:3.9-ubuntu20.04-envd-%s",
                 <<"FlagDockerOrganization", "GitTag">>)
      [] gr.Language.Name = "julia" ->
           Image("docker.io/%s/julia:1.8rc1-ubuntu20.04-envd-%s",
                 <<"FlagDockerOrganization", "GitTag">>)
      [] OTHER -> Scratch

rBaseIds_GidOnly(gr) ==
    [gr EXCEPT !.gid = IF gr.gid = 1000 THEN 1001 ELSE gr.gid]

\* case "r": the r-base image already has GID 1000.
rBaseIds(gr) ==
    [gr EXCEPT !.gid = IF gr.gid = 1000 THEN 1001 ELSE gr.gid,
               !.uid = IF gr.uid = 1000 THEN 1001 ELSE gr.uid]

\* g after the base image is chosen: only case "r" assigns to it.
afterBase(gr) ==
    IF noAccelerator(gr) /\ gr.Language.Name = "r" THEN rBaseIds(gr) ELSE gr

\* installConda is not part of system.go: it returns the conda stage built
\* on base, or an error.
installConda(base, ok) ==
    IF ok
    THEN [state |-> Append(base, Step("Conda", "install conda", -1, <<>>)),
          err |-> NoErr]
    ELSE [state |-> Scratch, err |-> "conda"]

isRootContext(gr) == gr.uid = 0

rootRemap_HomeFirst(condaStage) ==
    LET s1 == Run(condaStage, "groupadd -g %d envd", 1001, <<>>,
                  "[internal] still create group envd for root context")
        s2 == Run(s1, "useradd -p \"\" -u %d -g envd -s /bin/sh -m envd", 1001, <<>>,
                  "[internal] still create user envd for root context")
        s3 == Run(s2, "usermod -s /bin/sh root", -1, <<>>,
                  "[internal] set root default shell to /bin/sh")
        s4 == Run(s3, "sed -i \"s./root./home/envd.g\" /etc/passwd", -1, <<>>,
                  "[internal] set root home dir to /home/envd")
        s5 == Run(s4, "sed -i \"s/envd:x:1001:1001/envd:x:0:0/g\" /etc/passwd", -1, <<>>,
                  "[internal] set envd uid to 0 as root")
        s6 == Run(s5, "sed -i \"s/envd:x:1001/envd:x:0/g\" /etc/group", -1, <<>>,
                  "[internal] set envd group to 0 as root group")
    IN  Run(s6, "chown -R root:root /opt/conda", -1, <<>>,
            "[internal] configure user permissions")

\* if g.uid == 0
rootRemap(condaStage) ==
    LET s1 == Run(condaStage, "groupadd -g %d envd", 1001, <<>>,
                  "[internal] still create group envd for root context")
        s2 == Run(s1, "useradd -p \"\" -u %d -g envd -s /bin/sh -m envd", 1001, <<>>,
                  "[internal] still create user envd for root context")
        s3 == Run(s2, "usermod -s /bin/sh root", -1, <<>>,
                  "[internal] set root default shell to /bin/sh")
        s4 == Run(s3, "sed -i \"s/envd:x:1001:1001/envd:x:0:0/g\" /etc/passwd", -1, <<>>,
                  "[internal] set envd uid to 0 as root")
        s5 == Run(s4, "sed -i \"s./root./home/envd.g\" /etc/passwd", -1, <<>>,
                  "[internal] set root home dir to /home/envd")
        s6 == Run(s5, "sed -i \"s/envd:x:1001/envd:x:0/g\" /etc/group", -1, <<>>,
                  "[internal] set envd group to 0 as root group")
    IN  Run(s6, "chown -R root:root /opt/conda", -1, <<>>,
            "[internal] configure user permissions")

\* else
createUser(condaStage, gr) ==
    LET s1 == Run(condaStage, "groupadd -g %d envd", gr.gid, <<>>,
                  "[internal] create user group envd")
        s2 == Run(s1, "useradd -p \"\" -u %d -g envd -s /bin/sh -m envd", gr.uid, <<>>,
                  "[internal] create user envd")
        s3 == Run(s2, "adduser envd sudo", -1, <<>>,
                  "[internal] add user envd to sudoers")
        s4 == Run(s3, "chown -R envd:envd /usr/local/lib", -1, <<>>,
                  "[internal] configure user permissions")
    IN  Run(s4, "chown -R envd:envd /opt/conda", -1, <<>>,
            "[internal] configure user permissions")

\* llb.User("envd")(state)
User(state, name) == Append(state, Step("User", name, -1, <<>>))

\* What compileBase returns and leaves in g (its receiver is a pointer);
\* condaOK is whether installConda succeeds.
compileBase(gr, condaOK) ==
    IF usesCustomImage(gr)
    THEN [g |-> gr, state |-> Image(gr.Image, <<>>), err |-> NoErr, panic |-> FALSE]
    ELSE IF ~noAccelerator(gr) /\ derefPanics(gr)
    THEN [g |-> gr, state |-> Scratch, err |-> NoErr, panic |-> TRUE]
    ELSE
      LET base  == IF noAccelerator(gr) THEN languageBase(gr)
                   ELSE compileCUDAPackages(gr)
          g2    == afterBase(gr)
          conda == installConda(base, condaOK)
          res   == IF isRootContext(g2) THEN rootRemap(conda.state)
                   ELSE createUser(conda.state, g2)
      IN  IF conda.err # NoErr
          THEN [g |-> g2, state |-> Scratch,
                err |-> "failed to install conda", panic |-> FALSE]
          ELSE [g |-> g2, state |-> User(res, "envd"),
                err |-> NoErr, panic |-> FALSE]


-----------------------------------------------------------------------------
(* compileUbuntuAPT *)

\* llb.Merge([]llb.State{state, other}, llb.WithCustomName(name)): the merge
\* step keeps the merged-in chain in sub.
Merge(state, other, name) ==
    Append(state, [WithCustomName(Step("Merge", "", -1, <<>>), name)
                     EXCEPT !.sub = other])

compileUbuntuAPT(gr, state) ==
    IF gr.UbuntuAPTSource # Nil
    THEN LET mk   == WithCustomName(
                         Step("Mkdir", "filepath.Dir(aptSourceFilePath)", 755, <<>>),
                         "[internal] setting apt source")
             file == WithCustomName(
                         Step("Mkfile", "aptSourceFilePath", 644,
                              <<gr.UbuntuAPTSource>>),
                         "[internal] setting apt source")
         IN  Merge(state, <<mk, file>>, "[internal] setting apt source")
    ELSE state

-----------------------------------------------------------------------------
(* compileRun *)

PathValue ==
    "$PATH:/usr/local/sbin:/usr/local/bin:/usr/sbin:/usr/bin:/sbin:/bin:/opt/conda/bin:/usr/local/julia/bin:/opt/conda/envs/envd/bin"

\* state.AddEnv(key, value)
AddEnv(state, key, value) == Append(state, Step("AddEnv", key, -1, <<value>>))

BashFormat == "bash -c \"%s\""

RECURSIVE runRest(_, _, _)
\* for _, c := range cmds[i:] { run = run.Run(bash -c c) }, i counted from 1
runRest(run, cmds, i) ==
    IF i > Len(cmds) THEN run
    ELSE runRest(Run(run, BashFormat, -1, <<cmds[i]>>, ""), cmds, i + 1)

compileRun_SkipSecond(gr, state) ==
    IF Len(gr.Exec) = 0 THEN state
    ELSE LET env == AddEnv(state, "PATH", PathValue)
         IN  IF Len(gr.Exec) = 1
             THEN Run(env, BashFormat, -1, <<gr.Exec[1]>>, "")
             ELSE runRest(Run(env, BashFormat, -1, <<gr.Exec[1]>>, ""),
                          gr.Exec, 3)

compileRun(gr, state) ==
    IF Len(gr.Exec) = 0 THEN state
    ELSE LET env == AddEnv(state, "PATH", PathValue)
         IN  IF Len(gr.Exec) = 1
             THEN Run(env, BashFormat, -1, <<gr.Exec[1]>>, "")
             ELSE runRest(Run(env, BashFormat, -1, <<gr.Exec[1]>>, ""),
                          gr.Exec, 2)

-----------------------------------------------------------------------------
(* compileCopy *)

\* state.File(llb.Copy(llb.Local(flag.FlagBuildContext), src, dst,
\*                     llb.WithUIDGID(uid, gid)))
Copy(state, c, uid, gid) ==
    Append(state, WithUIDGID(Step("Copy", "FlagBuildContext", -1,
                                  <<c.Source, c.Destination>>), uid, gid))

RECURSIVE copyRest(_, _, _, _, _)
\* for _, c := range copies[i:] { result = result.File(llb.Copy(...)) }
copyRest(result, copies, i, uid, gid) ==
    IF i > Len(copies) THEN result
    ELSE copyRest(Copy(result, copies[i], uid, gid), copies, i + 1, uid, gid)

compileCopy_SwappedOwner(gr, state) ==
    IF Len(gr.Copy) = 0 THEN state
    ELSE copyRest(state, gr.Copy, 1, gr.gid, gr.uid)

compileCopy(gr, state) ==
    IF Len(gr.Copy) = 0 THEN state
    ELSE copyRest(state, gr.Copy, 1, gr.uid, gr.gid)

-----------------------------------------------------------------------------
(* compileSystemPackages *)

\* Graph.CacheID is not part of system.go: an identifier made of the
\* environment's name and the directory.
CacheID(gr, dir) == <<gr.EnvironmentName, dir>>

AptCommand ==
    "sudo apt-get update && sudo apt-get install -y --no-install-recommends"

RECURSIVE writePackages(_, _, _)
\* for _, pkg := range pkgs[i:] { sb.WriteString(" " + pkg) }
writePackages(sb, pkgs, i) ==
    IF i > Len(pkgs) THEN sb
    ELSE writePackages(Append(sb, pkgs[i]), pkgs, i + 1)

\* run.AddMount(target, llb.Scratch(),
\*              llb.AsPersistentCacheDir(id, llb.CacheMountShared))
\* on the step that ends state.  The code drops the state AddMount returns,
\* but the mount is appended to the exec op run points to, which run.Root()
\* then returns.
AddMount(state, target, id) ==
    [state EXCEPT ![Len(state)].mounts =
        Append(@, [target |-> target, source |-> Scratch,
                   cache |-> "persistent", id |-> id, sharing |-> "shared"])]

compileSystemPackages_OneCacheID(gr, state) ==
    IF Len(gr.SystemPackages) = 0 THEN state
    ELSE LET sb  == writePackages(<<AptCommand>>, gr.SystemPackages, 1)
             run == Run(state, BashFormat, -1, sb, "apt-get install %s")
             m1  == AddMount(run, "/var/cache/apt", CacheID(gr, "/var/cache/apt"))
         IN  AddMount(m1, "/var/lib/apt", CacheID(gr, "/var/cache/apt"))

RECURSIVE dedup(_, _)
dedup(pkgs, i) ==
    IF i > Len(pkgs) THEN <<>>
    ELSE IF \E j \in 1..(i - 1) : pkgs[j] = pkgs[i] THEN dedup(pkgs, i + 1)
    ELSE <<pkgs[i]>> \o dedup(pkgs, i + 1)

compileSystemPackages_Dedup(gr, state) ==
    IF Len(gr.SystemPackages) = 0 THEN state
    ELSE LET sb  == writePackages(<<AptCommand>>, dedup(gr.SystemPackages, 1), 1)
             run == Run(state, BashFormat, -1, sb, "apt-get install %s")
             m1  == AddMount(run, "/var/cache/apt", CacheID(gr, "/var/cache/apt"))
         IN  AddMount(m1, "/var/lib/apt", CacheID(gr, "/var/lib/apt"))

compileSystemPackages(gr, state) ==
    IF Len(gr.SystemPackages) = 0 THEN state
    ELSE LET cacheDir    == "/var/cache/apt"
             cacheLibDir == "/var/lib/apt"
             sb  == writePackages(<<AptCommand>>, gr.SystemPackages, 1)
             run == Run(state, BashFormat, -1, sb, "apt-get install %s")
             m1  == AddMount(run, cacheDir, CacheID(gr, cacheDir))
         IN  AddMount(m1, cacheLibDir, CacheID(gr, cacheLibDir))

-----------------------------------------------------------------------------
(* copySSHKey *)

Newline == "\n"

TrimSuffix_TrimRight(s, suffix) ==
    LET keep == {k \in 0..Len(s) : \A i \in (k + 1)..Len(s) : s[i] = suffix}
        n    == CHOOSE k \in keep : \A m \in keep : k <= m
    IN  SubSeq(s, 1, n)

\* strings.TrimSuffix(s, suffix), suffix one character long
TrimSuffix(s, suffix) ==
    IF Len(s) >= 1 /\ s[Len(s)] = suffix THEN SubSeq(s, 1, Len(s) - 1) ELSE s

\* What copySSHKey returns; file is what os.ReadFile finds.
copySSHKey(gr, state, file) ==
    LET readErr == file = Unreadable
        bdat    == IF readErr THEN <<>> ELSE file
        dat     == TrimSuffix(bdat, Newline)
        dir     == WithUIDGID(Step("Mkdir", "/var/envd", 755, <<>>),
                              gr.uid, gr.gid)
        keys    == WithCustomName(
                       WithUIDGID(Step("Mkfile", "ContainerAuthorizedKeysPath", 644,
                                       Append(dat, " envd")),
                                  gr.uid, gr.gid),
                       "install ssh keys")
    IN  IF readErr
        THEN [state |-> Scratch, err |-> "Cannot read public SSH key"]
        ELSE [state |-> Append(Append(state, dir), keys), err |-> NoErr]

-----------------------------------------------------------------------------
(* The Graphs and files compiled. *)

Langs == {"r", "python", "julia", "go"}

Ids == {0, 1000, 1001, 1002}

Images == {Nil, "custom:latest"}

Versions == {Nil, "11"}

Cmds == {"make", "ls", "pwd"}

Pkgs == {"vim", "git"}

CopyInfos == {[Source |-> ".", Destination |-> "/app"],
              [Source |-> "data", Destination |-> "/data"]}

Envs == {"env-a", "env-b"}

KeyChars == {"k", Newline}

KeyFiles == {Unreadable} \cup SeqsUpTo(KeyChars, MaxKeyLen)

\* A Graph with nothing set but the language and the caller's ids.
PlainGraph ==
    [OS |-> "ubuntu20.04", Language |-> [Name |-> "python", Version |-> Nil],
     Image |-> Nil, CUDA |-> Nil, CUDNN |-> Nil, UbuntuAPTSource |-> Nil,
     SystemPackages |-> <<>>, Exec |-> <<>>, Copy |-> <<>>,
     EnvironmentName |-> "env-a", uid |-> 1000, gid |-> 1000]

\* A Graph with every later stage's field set.
FullGraph ==
    [PlainGraph EXCEPT !.UbuntuAPTSource = "deb mirror focal main",
                       !.SystemPackages = <<"vim", "git">>,
                       !.Exec = <<"make", "ls">>,
                       !.Copy = <<[Source |-> ".", Destination |-> "/app"],
                                  [Source |-> "data", Destination |-> "/data"]>>]

\* Every choice of the fields compileBase reads, over the Graph gr.
BaseGraphs(gr) ==
    {[gr EXCEPT !.Image = img, !.CUDA = cuda, !.CUDNN = cudnn,
                !.Language = [Name |-> lang, Version |-> Nil],
                !.uid = uid, !.gid = gid] :
        img \in Images, cuda \in Versions, cudnn \in Versions,
        lang \in Langs, uid \in Ids, gid \in Ids}

\* The states compileBase hands to the later stages.
Roots ==
    {compileBase([PlainGraph EXCEPT !.Image = img], TRUE).state : img \in Images}

InitWith(gr, file, state, start) ==
    /\ g = gr
    /\ caller = [uid |-> gr.uid, gid |-> gr.gid]
    /\ keyFile = file
    /\ root = state
    /\ err = NoErr
    /\ pc = start
    /\ last = "none"
    /\ arg = Scratch
    /\ calls = 0

\* A whole compilation: compileBase first.
Init ==
    \E gr \in BaseGraphs(FullGraph), file \in {Unreadable, <<"k", Newline>>} :
        InitWith(gr, file, Scratch, "base")

\* compileBase alone.
InitBase ==
    \E gr \in BaseGraphs(PlainGraph) \cup BaseGraphs(FullGraph) :
        InitWith(gr, <<"k", Newline>>, Scratch, "base")

\* compileRun on a state compileBase returned.
InitRun ==
    \E exec \in SeqsUpTo(Cmds, MaxExec), state \in Roots :
        InitWith([PlainGraph EXCEPT !.Exec = exec], <<"k", Newline>>,
                 state, "stages")

\* compileSystemPackages on a state compileBase returned.
InitPkgs ==
    \E pkgs \in SeqsUpTo(Pkgs, MaxPkgs), env \in Envs, state \in Roots :
        InitWith([PlainGraph EXCEPT !.SystemPackages = pkgs,
                                    !.EnvironmentName = env],
                 <<"k", Newline>>, state, "stages")

\* copySSHKey on a state compileBase returned.
InitKey ==
    \E file \in KeyFiles, uid \in Ids, gid \in Ids, state \in Roots :
        InitWith([PlainGraph EXCEPT !.uid = uid, !.gid = gid],
                 file, state, "stages")

-----------------------------------------------------------------------------
(* The stages.  compileBase runs first and once; the later stages have value *)
(* receivers and take the state the stage before returned.                 *)

CompileBase ==
    /\ pc = "base"
    /\ \E condaOK \in BOOLEAN :
         LET r == compileBase(g, condaOK)
         IN  /\ g' = r.g
             /\ root' = r.state
             /\ err' = r.err
             /\ pc' = IF r.panic THEN "panic"
                      ELSE IF r.err # NoErr THEN "failed" ELSE "stages"
    /\ last' = "compileBase"
    /\ arg' = root
    /\ UNCHANGED <<caller, keyFile, calls>>

\* A later stage that cannot fail returned state.
Returned(stage, state) ==
    /\ pc = "stages"
    /\ calls < MaxCalls
    /\ root' = state
    /\ last' = stage
    /\ arg' = root
    /\ calls' = calls + 1
    /\ UNCHANGED <<g, caller, keyFile, err, pc>>

CompileUbuntuAPT == Returned("compileUbuntuAPT", compileUbuntuAPT(g, root))

CompileSystemPackages ==
    Returned("compileSystemPackages", compileSystemPackages(g, root))

CompileRun == Returned("compileRun", compileRun(g, root))

CompileCopy == Returned("compileCopy", compileCopy(g, root))

CopySSHKey ==
    /\ pc = "stages"
    /\ calls < MaxCalls
    /\ LET r == copySSHKey(g, root, keyFile)
       IN  /\ root' = r.state
           /\ err' = r.err
           /\ pc' = IF r.err # NoErr THEN "failed" ELSE "stages"
    /\ last' = "copySSHKey"
    /\ arg' = root
    /\ calls' = calls + 1
    /\ UNCHANGED <<g, caller, keyFile>>

Next ==
    \/ CompileBase
    \/ CompileUbuntuAPT
    \/ CompileSystemPackages
    \/ CompileRun
    \/ CompileCopy
    \/ CopySSHKey

Spec == Init /\ [][Next]_vars

NextBase == CompileBase

SpecBase == InitBase /\ [][NextBase]_vars

NextRun == CompileRun

SpecRun == InitRun /\ [][NextRun]_vars

NextPkgs == CompileSystemPackages

SpecPkgs == InitPkgs /\ [][NextPkgs]_vars

NextKey == CopySSHKey

SpecKey == InitKey /\ [][NextKey]_vars

-----------------------------------------------------------------------------
(* Properties of compileBase, checked under SpecBase. *)

BaseRan == last = "compileBase"

\* compileBase returned a state and no error.
BaseReturned == BaseRan /\ pc = "stages"

BothPresent == g.CUDA # Nil /\ g.CUDNN # Nil

\* The r-base image is the base: no override, no accelerator, language r.
RFamily ==
    g.Image = Nil /\ g.CUDA = Nil /\ g.CUDNN = Nil /\ g.Language.Name = "r"

Commands(steps) ==
    [i \in 1..Len(steps) |-> [sh |-> steps[i].sh, num |-> steps[i].num]]

HasOp(op) == \E i \in 1..Len(root) : root[i].op = op

\* The steps after the conda stage and before the final user step.
Provisioning ==
    LET k == CHOOSE i \in 1..Len(root) : root[i].op = "Conda"
    IN  SubSeq(root, k + 1, Len(root) - 1)

RemapCommands ==
    <<[sh |-> "groupadd -g %d envd", num |-> 1001],
      [sh |-> "useradd -p \"\" -u %d -g envd -s /bin/sh -m envd", num |-> 1001],
      [sh |-> "usermod -s /bin/sh root", num |-> -1],
      [sh |-> "sed -i \"s/envd:x:1001:1001/envd:x:0:0/g\" /etc/passwd", num |-> -1],
      [sh |-> "sed -i \"s./root./home/envd.g\" /etc/passwd", num |-> -1],
      [sh |-> "sed -i \"s/envd:x:1001/envd:x:0/g\" /etc/group", num |-> -1],
      [sh |-> "chown -R root:root /opt/conda", num |-> -1]>>

\* The commands only the root remap runs.
RemapOnly == {RemapCommands[i].sh : i \in 3..7}

UserCommands ==
    {"groupadd -g %d envd", "useradd -p \"\" -u %d -g envd -s /bin/sh -m envd",
     "adduser envd sudo", "chown -R envd:envd /usr/local/lib",
     "chown -R envd:envd /opt/conda"}

\* C1: with the image override set, compileBase returns the state of that
\* image alone (no provisioning step, no user step), without an error, and
\* leaves uid and gid as the caller supplied them, whatever the language, the
\* accelerator fields and the ids are.
C1_CustomImageOnly ==
    (BaseRan /\ g.Image # Nil) =>
        /\ pc = "stages"
        /\ err = NoErr
        /\ Len(root) = 1
        /\ root[1].op = "Image"
        /\ root[1].sh = g.Image
        /\ \A i \in 1..Len(root) :
              root[i].op # "User" /\ root[i].sh \notin (UserCommands \cup RemapOnly)
        /\ g.uid = caller.uid
        /\ g.gid = caller.gid

C1_Witness ==
    /\ BaseRan
    /\ g.Image # Nil
    /\ g.Language.Name = "r"
    /\ BothPresent
    /\ caller = [uid |-> 1000, gid |-> 1000]
    /\ Len(root) = 1

\* C2: with no image override, when compileBase returns a state, the steps
\* between the conda stage and the final user step are the seven root-remap
\* commands in their order if uid is 0, and if uid is not 0 no command of the
\* remap (shell change, substitutions, chown to root) is in the state.
C2_RootRemapIffUidZero ==
    (BaseReturned /\ g.Image = Nil) =>
        /\ HasOp("Conda")
        /\ Last(root).op = "User"
        /\ (g.uid = 0) <=> (Commands(Provisioning) = RemapCommands)
        /\ g.uid # 0 => \A i \in 1..Len(root) : root[i].sh \notin RemapOnly

C2_Witness ==
    /\ BaseReturned
    /\ g.Image = Nil
    /\ g.uid = 0
    /\ g.Language.Name = "r"
    /\ caller.gid = 1000
    /\ Len(Provisioning) = 7

\* C3: for the r-base image with uid and gid 1000 supplied, uid and gid are
\* 1001 after compileBase and the groupadd and useradd steps carry 1001, no
\* step carrying 1000; for every other base image compileBase leaves uid and
\* gid as supplied.
C3_RBaseBump ==
    BaseRan =>
        /\ (RFamily /\ caller.uid = 1000 /\ caller.gid = 1000) =>
              /\ g.uid = 1001
              /\ g.gid = 1001
              /\ pc = "stages" =>
                    /\ \A i \in 1..Len(root) : root[i].num # 1000
                    /\ \E i \in 1..Len(root) :
                          root[i].sh = "groupadd -g %d envd" /\ root[i].num = 1001
                    /\ \E i \in 1..Len(root) :
                          /\ root[i].sh = "useradd -p \"\" -u %d -g envd -s /bin/sh -m envd"
                          /\ root[i].num = 1001
        /\ ~RFamily => (g.uid = caller.uid /\ g.gid = caller.gid)

C3_Witness ==
    /\ BaseReturned
    /\ RFamily
    /\ caller = [uid |-> 1000, gid |-> 1000]
    /\ \E i \in 1..Len(root) :
          root[i].sh = "groupadd -g %d envd" /\ root[i].num = 1001

\* C4: with no image override and no accelerator field, a language name that
\* is none of r, python and julia makes compileBase fail: it returns an error
\* and no state, so that no provisioning step is built on an unset base image.
\* (The claim names the error a ConfigError; any error satisfies this formula.)
C4_UnknownLanguageFails ==
    (BaseRan /\ g.Image = Nil /\ g.CUDA = Nil /\ g.CUDNN = Nil
       /\ g.Language.Name \notin {"r", "python", "julia"}) =>
        /\ pc = "failed"
        /\ err # NoErr
        /\ root = Scratch

-----------------------------------------------------------------------------
(* Properties of compileRun, checked under SpecRun. *)

\* The steps the stage that ran last added to the state it was given.
Added == SubSeq(root, Len(arg) + 1, Len(root))

Extends == Len(root) >= Len(arg) /\ SubSeq(root, 1, Len(arg)) = arg

\* C5: compileRun returns its state unchanged if Exec is empty; otherwise it
\* adds one PATH environment step and then one shell step per entry of Exec,
\* the i-th running the i-th entry, and no other step.
C5_RunChain ==
    last = "compileRun" =>
        /\ Extends
        /\ Len(g.Exec) = 0 => root = arg
        /\ Len(g.Exec) > 0 =>
              /\ Len(Added) = 1 + Len(g.Exec)
              /\ Added[1].op = "AddEnv"
              /\ Added[1].sh = "PATH"
              /\ Added[1].args = <<PathValue>>
              /\ \A i \in 1..Len(g.Exec) :
                    /\ Added[i + 1].op = "Run"
                    /\ Added[i + 1].sh = BashFormat
                    /\ Added[i + 1].args = <<g.Exec[i]>>
        /\ (\E i \in 1..Len(Added) : Added[i].op \in {"AddEnv", "Run"})
              <=> Len(g.Exec) > 0

C5_Witness ==
    /\ last = "compileRun"
    /\ Len(g.Exec) = 3
    /\ g.Exec[1] # g.Exec[2]
    /\ g.Exec[2] # g.Exec[3]
    /\ Len(Added) = 4
    /\ Len(arg) > 0

-----------------------------------------------------------------------------
(* Properties of compileSystemPackages, checked under SpecPkgs. *)

\* C6: compileSystemPackages returns its state unchanged if SystemPackages is
\* empty; otherwise it adds exactly one shell step, whose command is the
\* apt-get command followed by the packages in their order, duplicates kept,
\* with two shared persistent cache mounts, at /var/cache/apt and /var/lib/apt.
C6_OneInstallStep ==
    last = "compileSystemPackages" =>
        /\ Extends
        /\ Len(g.SystemPackages) = 0 => root = arg
        /\ Len(g.SystemPackages) > 0 =>
              /\ Len(Added) = 1
              /\ Added[1].op = "Run"
              /\ Added[1].sh = BashFormat
              /\ Added[1].args = <<AptCommand>> \o g.SystemPackages
              /\ Len(Added[1].mounts) = 2
              /\ Added[1].mounts[1].target = "/var/cache/apt"
              /\ Added[1].mounts[2].target = "/var/lib/apt"
              /\ \A k \in 1..2 :
                    /\ Added[1].mounts[k].cache = "persistent"
                    /\ Added[1].mounts[k].sharing = "shared"

C6_Witness ==
    /\ last = "compileSystemPackages"
    /\ g.SystemPackages = <<"vim", "git", "vim">>
    /\ Len(Added) = 1
    /\ Len(Added[1].mounts) = 2
    /\ Len(arg) > 0

\* The install steps of the state: one for each time the stage compiled a
\* non-empty package list.
InstallSteps ==
    {i \in 1..Len(root) : root[i].op = "Run" /\ root[i].name = "apt-get install %s"}

-----------------------------------------------------------------------------
(* Properties of copySSHKey, checked under SpecKey. *)

\* C8: if the key file is readable, copySSHKey writes to the authorized-keys
\* path the file's content without its last character if that is a newline
\* (and only that one), followed by " envd"; if the file is unreadable it
\* returns an error and the zero state.
C8_KeyPayload ==
    last = "copySSHKey" =>
        IF keyFile = Unreadable
        THEN pc = "failed" /\ err # NoErr /\ root = Scratch
        ELSE /\ pc = "stages"
             /\ err = NoErr
             /\ Extends
             /\ Last(root).op = "Mkfile"
             /\ Last(root).sh = "ContainerAuthorizedKeysPath"
             /\ LET n == Len(keyFile)
                    stripped == IF n > 0 /\ keyFile[n] = Newline
                                THEN [i \in 1..(n - 1) |-> keyFile[i]]
                                ELSE keyFile
                IN  Last(root).args = stripped \o <<" envd">>

C8_Witness ==
    /\ last = "copySSHKey"
    /\ keyFile = <<"k", Newline, Newline>>
    /\ Last(root).args = <<"k", Newline, " envd">>

-----------------------------------------------------------------------------
(* Properties of the whole compilation, checked under Spec. *)

Bumped(n) == IF n = 1000 THEN 1001 ELSE n

\* The ids compileBase leaves: the caller's, bumped for the r-base image.
ProvisionedIds ==
    IF RFamily THEN <<Bumped(caller.uid), Bumped(caller.gid)>>
    ELSE <<caller.uid, caller.gid>>

\* C10: once compileBase has run, uid and gid stay what it left through every
\* later stage, in any order and number, and every copy step and the
\* authorized-keys directory and file are owned by exactly that uid and gid.
C10_IdsFrozenAfterBase ==
    last # "none" =>
        /\ <<g.uid, g.gid>> = ProvisionedIds
        /\ \A i \in 1..Len(root) :
              (root[i].op = "Copy"
                 \/ root[i].sh \in {"/var/envd", "ContainerAuthorizedKeysPath"})
              => root[i].own = ProvisionedIds

C10_Witness ==
    /\ calls = 2
    /\ RFamily
    /\ caller = [uid |-> 1000, gid |-> 1002]
    /\ \E i \in 1..Len(root) : root[i].op = "Copy" /\ root[i].own = <<1001, 1002>>
    /\ Last(root).sh = "ContainerAuthorizedKeysPath"
    /\ Last(root).own = <<1001, 1002>>

=============================================================================
